---- MODULE Spec2Model ----
(***************************************************************************)
(* Model of src/index.js: loadImageAsBase64, invokeClaude and the          *)
(* run-directly entry block.                                               *)
(*                                                                         *)
(* Text is a sequence of UTF-16 code units (integers); bytes are integers  *)
(* in 0..255.  JavaScript values are tagged records:                       *)
(*   [t |-> "undefined"], [t |-> "null"], [t |-> "bool", b |-> ...],       *)
(*   [t |-> "num", n |-> <literal text>], [t |-> "str", s |-> <text>],     *)
(*   [t |-> "arr", a |-> <<values>>], [t |-> "obj", m |-> <<<<key, v>>>>]  *)
(***************************************************************************)
EXTENDS Integers, Sequences, FiniteSets, TLC

VARIABLES pc, isMain, prompt, readCount, file, imageBase64, sendCount,
          command, reply, outcome, stdout, stderr, exitCode

vars == <<pc, isMain, prompt, readCount, file, imageBase64, sendCount,
          command, reply, outcome, stdout, stderr, exitCode>>

(***************************************************************************)
(* Bounds of the model.                                                    *)
(***************************************************************************)
\* longest image file (in bytes) the file system holds
MaxFileLen == 3
\* longest prompt (in code units) a caller of the imported module passes
MaxPromptLen == 2

(***************************************************************************)
(* Characters.                                                             *)
(***************************************************************************)
\* the printable ASCII characters, U+0020 .. U+007E, in code order (U+0060,
\* which a string cannot hold, by name)
Printable ==
  <<" ", "!", "\"", "#", "$", "%", "&", "'", "(", ")", "*", "+", ",", "-",
    ".", "/", "0", "1", "2", "3", "4", "5", "6", "7", "8", "9", ":", ";",
    "<", "=", ">", "?", "@", "A", "B", "C", "D", "E", "F", "G", "H", "I",
    "J", "K", "L", "M", "N", "O", "P", "Q", "R", "S", "T", "U", "V", "W",
    "X", "Y", "Z", "[", "\\", "]", "^", "_", "grave", "a", "b", "c", "d", "e",
    "f", "g", "h", "i", "j", "k", "l", "m", "n", "o", "p", "q", "r", "s",
    "t", "u", "v", "w", "x", "y", "z", "{", "|", "}", "~">>

\* the code unit of every printable ASCII character
CodeOf ==
  [c \in {Printable[i] : i \in 1..Len(Printable)} |->
     31 + (CHOOSE i \in 1..Len(Printable) : Printable[i] = c)]

\* the code unit of a printable ASCII character
Code(c) == CodeOf[c]

\* the text of a source string literal, given character by character
Cs(chars) == [i \in 1..Len(chars) |-> Code(chars[i])]

(***************************************************************************)
(* Buffer.prototype.toString('base64'): RFC 4648 base64 with padding.      *)
(***************************************************************************)
Base64Alphabet ==
  Cs(<<"A", "B", "C", "D", "E", "F", "G", "H", "I", "J", "K", "L", "M",
       "N", "O", "P", "Q", "R", "S", "T", "U", "V", "W", "X", "Y", "Z",
       "a", "b", "c", "d", "e", "f", "g", "h", "i", "j", "k", "l", "m",
       "n", "o", "p", "q", "r", "s", "t", "u", "v", "w", "x", "y", "z",
       "0", "1", "2", "3", "4", "5", "6", "7", "8", "9", "+", "/">>)

\* the character of a 6-bit group
B64Char(sextet) == Base64Alphabet[sextet + 1]

B64Pad == Code("=")

\* a variant of B64Group: the group without its padding, as base64url
\* is commonly written
B64GroupUnpadded(g) ==
  IF Len(g) = 1
    THEN <<B64Char(g[1] \div 4), B64Char((g[1] % 4) * 16)>>
  ELSE IF Len(g) = 2
    THEN <<B64Char(g[1] \div 4),
           B64Char((g[1] % 4) * 16 + g[2] \div 16),
           B64Char((g[2] % 16) * 4)>>
  ELSE <<B64Char(g[1] \div 4),
         B64Char((g[1] % 4) * 16 + g[2] \div 16),
         B64Char((g[2] % 16) * 4 + g[3] \div 64),
         B64Char(g[3] % 64)>>

\* the four characters of one full or partial group of 1..3 bytes
B64Group(g) ==
  IF Len(g) = 1
    THEN <<B64Char(g[1] \div 4), B64Char((g[1] % 4) * 16), B64Pad, B64Pad>>
  ELSE IF Len(g) = 2
    THEN <<B64Char(g[1] \div 4),
           B64Char((g[1] % 4) * 16 + g[2] \div 16),
           B64Char((g[2] % 16) * 4), B64Pad>>
  ELSE <<B64Char(g[1] \div 4),
         B64Char((g[1] % 4) * 16 + g[2] \div 16),
         B64Char((g[2] % 16) * 4 + g[3] \div 64),
         B64Char(g[3] % 64)>>

RECURSIVE Base64Encode(_)
Base64Encode(bytes) ==
  IF Len(bytes) = 0 THEN <<>>
  ELSE IF Len(bytes) <= 3 THEN B64Group(bytes)
  ELSE B64Group(SubSeq(bytes, 1, 3))
         \o Base64Encode(SubSeq(bytes, 4, Len(bytes)))

(***************************************************************************)
(* new TextDecoder().decode(bytes): the WHATWG UTF-8 decoder, not fatal,   *)
(* the byte order mark dropped, the result in UTF-16 code units.           *)
(***************************************************************************)
\* the code units of one code point
CodeUnits(cp) ==
  IF cp < 65536 THEN <<cp>>
  ELSE <<55296 + ((cp - 65536) \div 1024), 56320 + ((cp - 65536) % 1024)>>

\* the concatenation of the parts
RECURSIVE Flatten(_)
Flatten(parts) ==
  IF Len(parts) = 0 THEN <<>>
  ELSE IF Len(parts) = 1 THEN parts[1]
  ELSE Flatten(SubSeq(parts, 1, Len(parts) \div 2))
         \o Flatten(SubSeq(parts, (Len(parts) \div 2) + 1, Len(parts)))

\* the decoder at byte i, no sequence pending: the code units it emits for
\* the sequence that starts there and the number of bytes it takes.  A
\* sequence cut short by a byte that cannot continue it, or by the end of
\* the input, is U+FFFD, and that byte is decoded again as a first byte.
Utf8Step(bytes, i) ==
  LET b == bytes[i]
      needed == IF b >= 194 /\ b <= 223 THEN 1
                ELSE IF b >= 224 /\ b <= 239 THEN 2
                ELSE IF b >= 240 /\ b <= 244 THEN 3
                ELSE 0
      lower == IF b = 224 THEN 160 ELSE IF b = 240 THEN 144 ELSE 128
      upper == IF b = 237 THEN 159 ELSE IF b = 244 THEN 143 ELSE 191
      Continues(k) == /\ i + k <= Len(bytes)
                      /\ bytes[i + k] >= (IF k = 1 THEN lower ELSE 128)
                      /\ bytes[i + k] <= (IF k = 1 THEN upper ELSE 191)
      good == Cardinality({k \in 1..needed : \A j \in 1..k : Continues(j)})
      lead == IF needed = 1 THEN b % 32 ELSE IF needed = 2 THEN b % 16
              ELSE b % 8
      cp == IF needed = 1 THEN lead * 64 + (bytes[i + 1] % 64)
            ELSE IF needed = 2
              THEN lead * 4096 + (bytes[i + 1] % 64) * 64
                     + (bytes[i + 2] % 64)
            ELSE lead * 262144 + (bytes[i + 1] % 64) * 4096
                   + (bytes[i + 2] % 64) * 64 + (bytes[i + 3] % 64)
  IN IF b <= 127 THEN [units |-> <<b>>, used |-> 1]
     ELSE IF needed = 0 THEN [units |-> <<65533>>, used |-> 1]
     ELSE IF good = needed THEN [units |-> CodeUnits(cp), used |-> needed + 1]
     ELSE [units |-> <<65533>>, used |-> 1 + good]

RECURSIVE Utf8Decode(_, _)
Utf8Decode(bytes, i) ==
  IF i > Len(bytes) THEN <<>>
  ELSE Utf8Step(bytes, i).units
         \o Utf8Decode(bytes, i + Utf8Step(bytes, i).used)

TextDecode(bytes) ==
  IF Len(bytes) >= 3 /\ SubSeq(bytes, 1, 3) = <<239, 187, 191>>
    THEN Utf8Decode(bytes, 4)
  ELSE Utf8Decode(bytes, 1)

(***************************************************************************)
(* JavaScript values.                                                      *)
(***************************************************************************)
Undefined == [t |-> "undefined"]
Null == [t |-> "null"]
Bool(b) == [t |-> "bool", b |-> b]
Num(literal) == [t |-> "num", n |-> literal]
Str(s) == [t |-> "str", s |-> s]
Arr(items) == [t |-> "arr", a |-> items]
Obj(members) == [t |-> "obj", m |-> members]

(***************************************************************************)
(* JSON.stringify(value).                                                  *)
(***************************************************************************)
HexDigits ==
  Cs(<<"0", "1", "2", "3", "4", "5", "6", "7", "8", "9",
       "a", "b", "c", "d", "e", "f">>)

\* \uXXXX of a code unit
UnicodeEscape(c) ==
  Cs(<<"\\", "u">>) \o <<HexDigits[(c \div 4096) + 1],
                         HexDigits[((c \div 256) % 16) + 1],
                         HexDigits[((c \div 16) % 16) + 1],
                         HexDigits[(c % 16) + 1]>>

IsHighSurrogate(c) == c >= 55296 /\ c <= 56319
IsLowSurrogate(c) == c >= 56320 /\ c <= 57343

\* the code unit at i of s, as it stands inside a JSON string literal
QuoteChar(s, i) ==
  LET c == s[i] IN
  IF c = Code("\"") THEN Cs(<<"\\", "\"">>)
  ELSE IF c = Code("\\") THEN Cs(<<"\\", "\\">>)
  ELSE IF c = 8 THEN Cs(<<"\\", "b">>)
  ELSE IF c = 12 THEN Cs(<<"\\", "f">>)
  ELSE IF c = 10 THEN Cs(<<"\\", "n">>)
  ELSE IF c = 13 THEN Cs(<<"\\", "r">>)
  ELSE IF c = 9 THEN Cs(<<"\\", "t">>)
  ELSE IF c < 32 THEN UnicodeEscape(c)
  ELSE IF IsHighSurrogate(c) /\ ~(i < Len(s) /\ IsLowSurrogate(s[i + 1]))
    THEN UnicodeEscape(c)
  ELSE IF IsLowSurrogate(c) /\ ~(i > 1 /\ IsHighSurrogate(s[i - 1]))
    THEN UnicodeEscape(c)
  ELSE <<c>>

QuoteJSONString(s) ==
  Cs(<<"\"">>) \o Flatten([i \in 1..Len(s) |-> QuoteChar(s, i)])
    \o Cs(<<"\"">>)

\* the parts, with a comma between every two
RECURSIVE JoinComma(_)
JoinComma(parts) ==
  IF Len(parts) = 0 THEN <<>>
  ELSE IF Len(parts) = 1 THEN parts[1]
  ELSE JoinComma(SubSeq(parts, 1, Len(parts) \div 2)) \o Cs(<<",">>)
         \o JoinComma(SubSeq(parts, (Len(parts) \div 2) + 1, Len(parts)))

\* the members whose value is not undefined
RECURSIVE DefinedMembers(_)
DefinedMembers(members) ==
  IF members = <<>> THEN <<>>
  ELSE IF Head(members)[2].t = "undefined" THEN DefinedMembers(Tail(members))
  ELSE <<Head(members)>> \o DefinedMembers(Tail(members))

RECURSIVE JsonStringify(_)
JsonStringify(v) ==
  IF v.t = "str" THEN QuoteJSONString(v.s)
  ELSE IF v.t = "num" THEN v.n
  ELSE IF v.t = "bool"
    THEN IF v.b THEN Cs(<<"t", "r", "u", "e">>)
         ELSE Cs(<<"f", "a", "l", "s", "e">>)
  ELSE IF v.t = "arr"
    THEN Cs(<<"[">>)
           \o JoinComma([i \in 1..Len(v.a) |-> JsonStringify(v.a[i])])
           \o Cs(<<"]">>)
  ELSE IF v.t = "obj"
    THEN LET ms == DefinedMembers(v.m) IN
         Cs(<<"{">>)
           \o JoinComma([i \in 1..Len(ms) |->
                 QuoteJSONString(ms[i][1]) \o Cs(<<":">>)
                   \o JsonStringify(ms[i][2])])
           \o Cs(<<"}">>)
  \* null, and an undefined element of an array
  ELSE Cs(<<"n", "u", "l", "l">>)

(***************************************************************************)
(* JSON.parse(text): [ok |-> TRUE, v |-> value] or, where the code throws  *)
(* a SyntaxError, [ok |-> FALSE].  A number is kept as its literal text.   *)
(***************************************************************************)
ParseFail == [ok |-> FALSE]
Parsed(v, next) == [ok |-> TRUE, v |-> v, i |-> next]

IsDigit(c) == c >= Code("0") /\ c <= Code("9")

\* the value of a hexadecimal digit, -1 of any other character
HexValue(c) ==
  IF IsDigit(c) THEN c - Code("0")
  ELSE IF c >= Code("a") /\ c <= Code("f") THEN c - Code("a") + 10
  ELSE IF c >= Code("A") /\ c <= Code("F") THEN c - Code("A") + 10
  ELSE -1

\* the first index at or after i that holds no white space
SkipWs(s, i) ==
  CHOOSE j \in i..(Len(s) + 1) :
    /\ j = Len(s) + 1 \/ s[j] \notin {32, 9, 10, 13}
    /\ \A k \in i..(j - 1) : s[k] \in {32, 9, 10, 13}

\* the first index at or after i that holds no digit
DigitsEnd(s, i) ==
  CHOOSE j \in i..(Len(s) + 1) :
    /\ j = Len(s) + 1 \/ ~IsDigit(s[j])
    /\ \A k \in i..(j - 1) : IsDigit(s[k])

At(s, i, c) == i <= Len(s) /\ s[i] = Code(c)

\* the number of backslashes in a row just before j, from i on
BackslashRun(s, i, j) ==
  IF j = i \/ s[j - 1] # Code("\\") THEN 0
  ELSE j - (CHOOSE m \in i..(j - 1) :
              /\ \A k \in m..(j - 1) : s[k] = Code("\\")
              /\ m = i \/ s[m - 1] # Code("\\"))

\* in the string literal whose characters start at i: j is the backslash
\* of an escape, j is the character after that backslash
EscapeStart(s, i, j) == s[j] = Code("\\") /\ BackslashRun(s, i, j) % 2 = 0
Escaped(s, i, j) == BackslashRun(s, i, j) % 2 = 1

\* j is one of the four digits of a \uXXXX escape
InUnicodeEscape(s, i, j) ==
  \E d \in 2..5 : /\ j - d >= i
                  /\ s[j - d + 1] = Code("u")
                  /\ EscapeStart(s, i, j - d)

\* the character an escape stands for, j the character after the backslash
EscapeValue(s, j) ==
  IF s[j] = Code("b") THEN 8
  ELSE IF s[j] = Code("f") THEN 12
  ELSE IF s[j] = Code("n") THEN 10
  ELSE IF s[j] = Code("r") THEN 13
  ELSE IF s[j] = Code("t") THEN 9
  ELSE IF s[j] = Code("u")
    THEN HexValue(s[j + 1]) * 4096 + HexValue(s[j + 2]) * 256
           + HexValue(s[j + 3]) * 16 + HexValue(s[j + 4])
  ELSE s[j]

\* the closing quote of the string literal whose characters start at i, or
\* 0 when it has none
StringEnd(s, i) ==
  IF \E j \in i..Len(s) : s[j] = Code("\"") /\ ~Escaped(s, i, j)
    THEN CHOOSE j \in i..Len(s) :
           /\ s[j] = Code("\"") /\ ~Escaped(s, i, j)
           /\ \A k \in i..(j - 1) : ~(s[k] = Code("\"") /\ ~Escaped(s, i, k))
  ELSE 0

\* the character at j may stand in the string literal that ends at end
LegalInString(s, i, j, end) ==
  /\ s[j] >= 32
  /\ Escaped(s, i, j) =>
       /\ s[j] \in {Code("\""), Code("\\"), Code("/"), Code("b"), Code("f"),
                    Code("n"), Code("r"), Code("t"), Code("u")}
       /\ s[j] = Code("u") =>
            /\ j + 4 < end
            /\ \A k \in 1..4 : HexValue(s[j + k]) >= 0

\* the code units the character at j of a string literal stands for
StringUnits(s, i, j) ==
  IF Escaped(s, i, j) THEN <<EscapeValue(s, j)>>
  ELSE IF s[j] = Code("\\") THEN <<>>
  ELSE IF InUnicodeEscape(s, i, j) THEN <<>>
  ELSE <<s[j]>>

ParseStringTo(s, i, end) ==
  IF end = 0 THEN ParseFail
  ELSE IF \E j \in i..(end - 1) : ~LegalInString(s, i, j, end) THEN ParseFail
  ELSE Parsed(Str(Flatten([k \in 1..(end - i) |->
                             StringUnits(s, i, i + k - 1)])), end + 1)

\* a string literal, i just after its opening quote
ParseString(s, i) == ParseStringTo(s, i, StringEnd(s, i))

\* a number literal starting at i: -? int frac? exp?
NumberExp(s, i, fracEnd) ==
  IF At(s, fracEnd, "e") \/ At(s, fracEnd, "E")
    THEN IF At(s, fracEnd + 1, "+") \/ At(s, fracEnd + 1, "-")
           THEN IF DigitsEnd(s, fracEnd + 2) = fracEnd + 2 THEN ParseFail
                ELSE Parsed(Num(SubSeq(s, i, DigitsEnd(s, fracEnd + 2) - 1)),
                            DigitsEnd(s, fracEnd + 2))
         ELSE IF DigitsEnd(s, fracEnd + 1) = fracEnd + 1 THEN ParseFail
         ELSE Parsed(Num(SubSeq(s, i, DigitsEnd(s, fracEnd + 1) - 1)),
                     DigitsEnd(s, fracEnd + 1))
  ELSE Parsed(Num(SubSeq(s, i, fracEnd - 1)), fracEnd)

NumberFrac(s, i, int, intEnd) ==
  IF intEnd = int THEN ParseFail
  ELSE IF At(s, intEnd, ".")
    THEN IF DigitsEnd(s, intEnd + 1) = intEnd + 1 THEN ParseFail
         ELSE NumberExp(s, i, DigitsEnd(s, intEnd + 1))
  ELSE NumberExp(s, i, intEnd)

NumberInt(s, i, int) ==
  NumberFrac(s, i, int, IF At(s, int, "0") THEN int + 1 ELSE DigitsEnd(s, int))

ParseNumber(s, i) == NumberInt(s, i, IF At(s, i, "-") THEN i + 1 ELSE i)

\* the literal word at i
ParseWord(s, i, word, v) ==
  IF i + Len(word) - 1 <= Len(s) /\ SubSeq(s, i, i + Len(word) - 1) = word
    THEN Parsed(v, i + Len(word))
  ELSE ParseFail

RECURSIVE ParseValueAt(_, _), ParseElements(_, _, _), ParseMembers(_, _, _),
          ElementParsed(_, _, _), ElementEnd(_, _, _), MemberAt(_, _, _),
          KeyParsed(_, _, _), ColonAt(_, _, _, _), MemberParsed(_, _, _, _),
          MemberEnd(_, _, _), ArrayAt(_, _), ObjectAt(_, _)

\* a value, after any white space from i0 on
ParseValue(s, i0) == ParseValueAt(s, SkipWs(s, i0))

\* an array, j the first index after its bracket that holds no white space
ArrayAt(s, j) ==
  IF At(s, j, "]") THEN Parsed(Arr(<<>>), j + 1)
  ELSE ParseElements(s, j, <<>>)

\* an object, j the first index after its brace that holds no white space
ObjectAt(s, j) ==
  IF At(s, j, "}") THEN Parsed(Obj(<<>>), j + 1)
  ELSE ParseMembers(s, j, <<>>)

ParseValueAt(s, i) ==
  IF i > Len(s) THEN ParseFail
  ELSE IF s[i] = Code("{") THEN ObjectAt(s, SkipWs(s, i + 1))
  ELSE IF s[i] = Code("[") THEN ArrayAt(s, SkipWs(s, i + 1))
  ELSE IF s[i] = Code("\"") THEN ParseString(s, i + 1)
  ELSE IF s[i] = Code("-") \/ IsDigit(s[i]) THEN ParseNumber(s, i)
  ELSE IF s[i] = Code("t")
    THEN ParseWord(s, i, Cs(<<"t", "r", "u", "e">>), Bool(TRUE))
  ELSE IF s[i] = Code("f")
    THEN ParseWord(s, i, Cs(<<"f", "a", "l", "s", "e">>), Bool(FALSE))
  ELSE IF s[i] = Code("n")
    THEN ParseWord(s, i, Cs(<<"n", "u", "l", "l">>), Null)
  ELSE ParseFail

\* the elements of an array from i on, acc the ones before
ParseElements(s, i, acc) ==
  ElementParsed(s, acc, ParseValueAt(s, SkipWs(s, i)))

ElementParsed(s, acc, r) ==
  IF ~r.ok THEN ParseFail
  ELSE ElementEnd(s, Append(acc, r.v), SkipWs(s, r.i))

ElementEnd(s, acc, j) ==
  IF At(s, j, ",") THEN ParseElements(s, j + 1, acc)
  ELSE IF At(s, j, "]") THEN Parsed(Arr(acc), j + 1)
  ELSE ParseFail

\* the members of an object from i on, acc the ones before
ParseMembers(s, i, acc) == MemberAt(s, acc, SkipWs(s, i))

MemberAt(s, acc, k) ==
  IF ~At(s, k, "\"") THEN ParseFail
  ELSE KeyParsed(s, acc, ParseString(s, k + 1))

KeyParsed(s, acc, key) ==
  IF ~key.ok THEN ParseFail
  ELSE ColonAt(s, acc, key.v.s, SkipWs(s, key.i))

ColonAt(s, acc, name, c) ==
  IF ~At(s, c, ":") THEN ParseFail
  ELSE MemberParsed(s, acc, name, ParseValueAt(s, SkipWs(s, c + 1)))

MemberParsed(s, acc, name, r) ==
  IF ~r.ok THEN ParseFail
  ELSE MemberEnd(s, Append(acc, <<name, r.v>>), SkipWs(s, r.i))

MemberEnd(s, acc, j) ==
  IF At(s, j, ",") THEN ParseMembers(s, j + 1, acc)
  ELSE IF At(s, j, "}") THEN Parsed(Obj(acc), j + 1)
  ELSE ParseFail

\* the whole text is one value and white space
WholeText(text, r) ==
  IF r.ok /\ SkipWs(text, r.i) > Len(text) THEN [ok |-> TRUE, v |-> r.v]
  ELSE ParseFail

JsonParse(text) == WholeText(text, ParseValue(text, 1))

(***************************************************************************)
(* The string literals of src/index.js.                                    *)
(***************************************************************************)
\* line 44
ModelId ==
    Cs(<<"a", "n", "t", "h", "r", "o", "p", "i", "c", ".", "c", "l",
         "a", "u", "d", "e", "-", "3", "-", "h", "a", "i", "k", "u",
         "-", "2", "0", "2", "4", "0", "3", "0", "7", "-", "v", "1",
         ":", "0">>)

\* line 107
MainPrompt ==
    Cs(<<"P", "r", "o", "v", "i", "d", "e", " ", "m", "e", " ", "m",
         "o", "r", "e", " ", "d", "e", "t", "a", "i", "l", "s", " ",
         "a", "b", "o", "u", "t", " ", "t", "h", "i", "s", " ", "i",
         "m", "a", "g", "e">>)

\* line 109
BannerLine ==
    <<10>>
    \o Cs(<<"M", "o", "d", "e", "l", ":", " ", "A", "n", "t", "h", "r",
         "o", "p", "i", "c", " ", "C", "l", "a", "u", "d", "e", " ",
         "v", "3">>)

\* line 110
PromptLabel ==
    Cs(<<"P", "r", "o", "m", "p", "t", ":", " ">>)

\* line 113
CompletionLabel ==
    Cs(<<"C", "o", "m", "p", "l", "e", "t", "i", "o", "n", ":">>)

\* line 23
LoadErrorLabel ==
    Cs(<<"E", "r", "r", "o", "r", " ", "l", "o", "a", "d", "i", "n",
         "g", " ", "t", "h", "e", " ", "i", "m", "a", "g", "e", ":">>)

\* line 97
AccessDeniedPrefix ==
    Cs(<<"A", "c", "c", "e", "s", "s", " ", "d", "e", "n", "i", "e",
         "d", ".", " ", "E", "n", "s", "u", "r", "e", " ", "y", "o",
         "u", " ", "h", "a", "v", "e", " ", "t", "h", "e", " ", "c",
         "o", "r", "r", "e", "c", "t", " ", "p", "e", "r", "m", "i",
         "s", "s", "i", "o", "n", "s", " ", "t", "o", " ", "i", "n",
         "v", "o", "k", "e", " ">>)

\* lines 81-82
ApplicationJson ==
    Cs(<<"a", "p", "p", "l", "i", "c", "a", "t", "i", "o", "n", "/",
         "j", "s", "o", "n">>)

\* line 75
AnthropicVersion ==
    Cs(<<"b", "e", "d", "r", "o", "c", "k", "-", "2", "0", "2", "3",
         "-", "0", "5", "-", "3", "1">>)

\* line 76
StopSequence ==
    <<10>>
    \o <<10>>
    \o Cs(<<"H", "u", "m", "a", "n", ":">>)

\* line 62
MediaType ==
    Cs(<<"i", "m", "a", "g", "e", "/", "p", "n", "g">>)

\* the property names and fixed words of the request and the response
K_messages ==
    Cs(<<"m", "e", "s", "s", "a", "g", "e", "s">>)
K_role ==
    Cs(<<"r", "o", "l", "e">>)
K_user ==
    Cs(<<"u", "s", "e", "r">>)
K_content ==
    Cs(<<"c", "o", "n", "t", "e", "n", "t">>)
K_type ==
    Cs(<<"t", "y", "p", "e">>)
K_image ==
    Cs(<<"i", "m", "a", "g", "e">>)
K_source ==
    Cs(<<"s", "o", "u", "r", "c", "e">>)
K_base64 ==
    Cs(<<"b", "a", "s", "e", "6", "4">>)
K_media_type ==
    Cs(<<"m", "e", "d", "i", "a", "_", "t", "y", "p", "e">>)
K_data ==
    Cs(<<"d", "a", "t", "a">>)
K_text ==
    Cs(<<"t", "e", "x", "t">>)
K_max_tokens ==
    Cs(<<"m", "a", "x", "_", "t", "o", "k", "e", "n", "s">>)
K_temperature ==
    Cs(<<"t", "e", "m", "p", "e", "r", "a", "t", "u", "r", "e">>)
K_anthropic_version ==
    Cs(<<"a", "n", "t", "h", "r", "o", "p", "i", "c", "_", "v", "e",
         "r", "s", "i", "o", "n">>)
K_stop_sequences ==
    Cs(<<"s", "t", "o", "p", "_", "s", "e", "q", "u", "e", "n", "c",
         "e", "s">>)

(***************************************************************************)
(* Results of a call, thrown values, console lines.                        *)
(***************************************************************************)
Pending == [t |-> "pending"]
Return(v) == [t |-> "return", v |-> v]
Throw(e) == [t |-> "throw", e |-> e]

\* an Error object: its class and, for a file system error, its code
Error(class, code) == [t |-> "error", class |-> class, code |-> code]

\* err instanceof AccessDeniedException
IsAccessDenied(err) == err.t = "error" /\ err.class = "AccessDeniedException"

\* a variant of loadImageAsBase64: an unreadable file is logged and read as
\* an empty image
LoadImageOrEmpty(read) ==
  IF read.t = "bytes"
    THEN [result |-> Return(Str(Base64Encode(read.b))), errLines |-> <<>>]
  ELSE [result |-> Return(Str(<<>>)),
        errLines |-> <<<<Str(LoadErrorLabel), read.e>>>>]

\* a variant of loadImageAsBase64: the error is thrown on without a line on
\* standard error
LoadImageSilently(read) ==
  IF read.t = "bytes"
    THEN [result |-> Return(Str(Base64Encode(read.b))), errLines |-> <<>>]
  ELSE [result |-> Throw(read.e), errLines |-> <<>>]

(***************************************************************************)
(* loadImageAsBase64, from the result of fs.readFile on: the value it      *)
(* returns or throws, and the lines it writes with console.error.          *)
(***************************************************************************)
LoadImageAsBase64(read) ==
  IF read.t = "bytes"
    THEN [result |-> Return(Str(Base64Encode(read.b))), errLines |-> <<>>]
  ELSE [result |-> Throw(read.e),
        errLines |-> <<<<Str(LoadErrorLabel), read.e>>>>]

(***************************************************************************)
(* invokeClaude: the request.                                              *)
(***************************************************************************)
\* a variant of Payload: the text block before the image block
PayloadTextFirst(image, text) ==
  Obj(<<
    <<K_messages, Arr(<<
       Obj(<<
         <<K_role, Str(K_user)>>,
         <<K_content, Arr(<<
            Obj(<< <<K_type, Str(K_text)>>,
                   <<K_text, text>> >>),
            Obj(<< <<K_type, Str(K_image)>>,
                   <<K_source, Obj(<< <<K_type, Str(K_base64)>>,
                                      <<K_media_type, Str(MediaType)>>,
                                      <<K_data, image>> >>)>> >>) >>)>> >>) >>)>>,
    <<K_max_tokens, Num(Cs(<<"5", "0", "0">>))>>,
    <<K_temperature, Num(Cs(<<"0", ".", "5">>))>>,
    <<K_anthropic_version, Str(AnthropicVersion)>>,
    <<K_stop_sequences, Arr(<<Str(StopSequence)>>)>> >>)

Payload(image, text) ==
  Obj(<<
    <<K_messages, Arr(<<
       Obj(<<
         <<K_role, Str(K_user)>>,
         <<K_content, Arr(<<
            Obj(<< <<K_type, Str(K_image)>>,
                   <<K_source, Obj(<< <<K_type, Str(K_base64)>>,
                                      <<K_media_type, Str(MediaType)>>,
                                      <<K_data, image>> >>)>> >>),
            Obj(<< <<K_type, Str(K_text)>>,
                   <<K_text, text>> >>) >>)>> >>) >>)>>,
    <<K_max_tokens, Num(Cs(<<"5", "0", "0">>))>>,
    <<K_temperature, Num(Cs(<<"0", ".", "5">>))>>,
    <<K_anthropic_version, Str(AnthropicVersion)>>,
    <<K_stop_sequences, Arr(<<Str(StopSequence)>>)>> >>)

InvokeModelCommand(payload) ==
  [body |-> JsonStringify(payload), contentType |-> ApplicationJson,
   accept |-> ApplicationJson, modelId |-> ModelId]

NoCommand == [body |-> <<>>, contentType |-> <<>>, accept |-> <<>>,
              modelId |-> <<>>]

(***************************************************************************)
(* invokeClaude: the response.                                             *)
(***************************************************************************)
\* the last member of the name, as JSON.parse keeps it
RECURSIVE LastMember(_, _, _)
LastMember(members, name, i) ==
  IF i = 0 THEN Undefined
  ELSE IF members[i][1] = name THEN members[i][2]
  ELSE LastMember(members, name, i - 1)

\* value.name, of a name no prototype defines: the value read, or the
\* TypeError of reading a property of undefined or null
GetMember(value, name) ==
  IF value.t \in {"undefined", "null"}
    THEN Throw(Error("TypeError", ""))
  ELSE IF value.t = "obj"
    THEN Return(LastMember(value.m, name, Len(value.m)))
  ELSE Return(Undefined)

\* a variant of GetFirst: the last element of a list
GetLast(value) ==
  IF value.t \in {"undefined", "null"}
    THEN Throw(Error("TypeError", ""))
  ELSE IF value.t = "arr"
    THEN Return(IF Len(value.a) > 0 THEN value.a[Len(value.a)]
                ELSE Undefined)
  ELSE Return(Undefined)

\* value[0]
GetFirst(value) ==
  IF value.t \in {"undefined", "null"}
    THEN Throw(Error("TypeError", ""))
  ELSE IF value.t = "arr"
    THEN Return(IF Len(value.a) > 0 THEN value.a[1] ELSE Undefined)
  ELSE IF value.t = "str"
    THEN Return(IF Len(value.s) > 0 THEN Str(<<value.s[1]>>) ELSE Undefined)
  ELSE IF value.t = "obj"
    THEN Return(LastMember(value.m, Cs(<<"0">>), Len(value.m)))
  ELSE Return(Undefined)

\* the property of a value that was read without a throw
ThenMember(read, name) ==
  IF read.t = "throw" THEN read ELSE GetMember(read.v, name)

ThenFirst(read) == IF read.t = "throw" THEN read ELSE GetFirst(read.v)

\* responseBody.content[0].text
ExtractCompletion(responseBody) ==
  ThenMember(ThenFirst(GetMember(responseBody, K_content)), K_text)

\* the return statement of the try block, or the SyntaxError of JSON.parse
ReturnCompletion(parsed) ==
  IF ~parsed.ok THEN Throw(Error("SyntaxError", ""))
  ELSE ExtractCompletion(parsed.v)

\* the body of the try block once client.send has resolved
DecodeResponse(body) == ReturnCompletion(JsonParse(TextDecode(body)))

AccessDeniedWarning == AccessDeniedPrefix \o ModelId \o Cs(<<".">>)

\* a variant of Catch: every error is thrown again
CatchRethrows(err) == [result |-> Throw(err), errLines |-> <<>>]

\* a variant of Catch: every error is reported as access denied
CatchSwallows(err) ==
  [result |-> Return(Undefined),
   errLines |-> <<<<Str(AccessDeniedWarning)>>>>]

\* the catch block: what invokeClaude then returns or throws, and the lines
\* it writes with console.error
Catch(err) ==
  IF IsAccessDenied(err)
    THEN [result |-> Return(Undefined),
          errLines |-> <<<<Str(AccessDeniedWarning)>>>>]
  ELSE [result |-> Throw(err), errLines |-> <<>>]

\* the try statement, tried what its block returned or threw
TryCatch(tried) ==
  IF tried.t = "throw" THEN Catch(tried.e)
  ELSE [result |-> tried, errLines |-> <<>>]

\* the try statement, from the settlement of client.send on
TrySend(settled) ==
  TryCatch(IF settled.t = "reject" THEN Throw(settled.e)
           ELSE DecodeResponse(settled.body))

(***************************************************************************)
(* What the program is given: the image file, the caller's prompt and the  *)
(* settlement of client.send.                                              *)
(***************************************************************************)
SeqsUpTo(S, n) == UNION {[1..k -> S] : k \in 0..n}

\* the byte values image files are made of
FileBytes == {77, 255}

\* fs.readFile: the bytes of the file, or the error of a path that does
\* not exist or cannot be read
ReadResults ==
  {[t |-> "bytes", b |-> b] : b \in SeqsUpTo(FileBytes, MaxFileLen)}
    \cup {[t |-> "error", e |-> Error("Error", code)] :
            code \in {"ENOENT", "EACCES"}}

NoRead == [t |-> "none"]

\* the characters prompts are made of: a letter, the two characters a JSON
\* string escapes with a backslash, a line feed and U+00E9
PromptChars == {Code("a"), Code("\""), Code("\\"), 10, 233}

Prompts == SeqsUpTo(PromptChars, MaxPromptLen)

\* the UTF-8 bytes of a text of code units below U+D800
Utf8Encode(text) ==
  Flatten([i \in 1..Len(text) |->
    IF text[i] < 128 THEN <<text[i]>>
    ELSE IF text[i] < 2048
      THEN <<192 + (text[i] \div 64), 128 + (text[i] % 64)>>
    ELSE <<224 + (text[i] \div 4096), 128 + ((text[i] \div 64) % 64),
           128 + (text[i] % 64)>>])

Hello == Cs(<<"h", "e", "l", "l", "o">>)

\* a text with every kind of character a JSON string escapes, and U+00E9
Tricky == <<Code("a"), Code("\""), Code("\\"), 10, 9, 1, 233, Code("/")>>

ContentOf(parts) == Obj(<<<<K_content, parts>>>>)
TextPart(text) == Obj(<<<<K_type, Str(K_text)>>, <<K_text, text>>>>)

\* the JSON values the endpoint answers with
ResponseValues ==
  { ContentOf(Arr(<<Obj(<<<<K_text, Str(Hello)>>>>)>>)),
    ContentOf(Arr(<<TextPart(Str(Tricky)), TextPart(Str(Hello))>>)),
    ContentOf(Arr(<<TextPart(Str(<<>>))>>)),
    ContentOf(Arr(<<TextPart(Null)>>)),
    ContentOf(Arr(<<TextPart(Num(Cs(<<"4", "2">>)))>>)),
    ContentOf(Arr(<<Obj(<<<<K_type, Str(K_text)>>>>)>>)),
    ContentOf(Arr(<<Obj(<<>>), TextPart(Str(Hello))>>)),
    ContentOf(Arr(<<Null>>)),
    ContentOf(Arr(<<>>)),
    ContentOf(Str(Hello)),
    Obj(<<>>),
    Null }

\* a response body that is the JSON text of a value
JsonBody(bytes, v) ==
  [t |-> "resolve", body |-> bytes, json |-> [ok |-> TRUE, v |-> v]]

\* a response body that is no JSON text
BadBody(bytes) == [t |-> "resolve", body |-> bytes, json |-> [ok |-> FALSE]]

HelloBody == Utf8Encode(JsonStringify(
               ContentOf(Arr(<<Obj(<<<<K_text, Str(Hello)>>>>)>>))))

\* { "content" : [ { "text" : "hello" } ] }, with a line feed at its end
SpacedHelloBody ==
  Utf8Encode(Cs(<<"{", " ", "\"", "c", "o", "n", "t", "e", "n", "t", "\"", " ",
                  ":", " ", "[", " ", "{", " ", "\"", "t", "e", "x", "t", "\"",
                  " ", ":", " ", "\"", "h", "e", "l", "l", "o", "\"", " ", "}",
                  " ", "]", " ", "}">>)
             \o <<10>>)

Rejection(class, code) == [t |-> "reject", e |-> Error(class, code)]

\* the settlements of client.send
Settlements ==
  {JsonBody(Utf8Encode(JsonStringify(v)), v) : v \in ResponseValues}
    \cup { JsonBody(SpacedHelloBody,
                    ContentOf(Arr(<<Obj(<<<<K_text, Str(Hello)>>>>)>>))),
           \* a byte order mark before the text
           JsonBody(<<239, 187, 191>> \o HelloBody,
                    ContentOf(Arr(<<Obj(<<<<K_text, Str(Hello)>>>>)>>))) }
    \cup { BadBody(<<>>),
           BadBody(Utf8Encode(Hello)),
           \* a body cut short
           BadBody(SubSeq(HelloBody, 1, Len(HelloBody) - 5)),
           \* a byte that is no UTF-8
           BadBody(<<255>> \o HelloBody) }
    \cup { Rejection("AccessDeniedException", ""),
           Rejection("ThrottlingException", ""),
           Rejection("ValidationException", ""),
           Rejection("Error", "ECONNREFUSED") }

NoSettlement == [t |-> "none"]

(***************************************************************************)
(* The program.  pc is the place of the one thread of control:             *)
(*   "start"    the module is being evaluated                              *)
(*   "call"     invokeClaude is about to be called                         *)
(*   "reading"  loadImageAsBase64 awaits fs.readFile                       *)
(*   "loaded"   loadImageAsBase64 has returned                             *)
(*   "sending"  invokeClaude awaits client.send                            *)
(*   "settled"  invokeClaude has returned or thrown                        *)
(*   "exit"     the process run directly has ended                         *)
(***************************************************************************)
Init ==
  /\ pc = "start"
  /\ isMain \in BOOLEAN
  /\ prompt = <<>>
  /\ readCount = 0
  /\ file = NoRead
  /\ imageBase64 = Undefined
  /\ sendCount = 0
  /\ command = NoCommand
  /\ reply = NoSettlement
  /\ outcome = Pending
  /\ stdout = <<>>
  /\ stderr = <<>>
  /\ exitCode = -1

\* the file is run directly: the lines before the call of invokeClaude
MainEntry ==
  /\ pc = "start" /\ isMain
  /\ prompt' = MainPrompt
  /\ stdout' = stdout \o <<<<Str(BannerLine)>>,
                           <<Str(PromptLabel \o MainPrompt)>>>>
  /\ pc' = "call"
  /\ UNCHANGED <<isMain, readCount, file, imageBase64, sendCount, command,
                 reply, outcome, stderr, exitCode>>

\* the module is imported, and its importer is about to call invokeClaude
CallerEntry ==
  /\ pc = "start" /\ ~isMain
  /\ \E p \in Prompts : prompt' = p
  /\ pc' = "call"
  /\ UNCHANGED <<isMain, readCount, file, imageBase64, sendCount, command,
                 reply, outcome, stdout, stderr, exitCode>>

\* invokeClaude up to its first await: loadImageAsBase64 starts the read
InvokeClaude ==
  /\ pc = "call"
  /\ readCount' = readCount + 1
  /\ pc' = "reading"
  /\ UNCHANGED <<isMain, prompt, file, imageBase64, sendCount, command,
                 reply, outcome, stdout, stderr, exitCode>>

\* loadImageAsBase64 has returned or thrown; a throw is not inside the try
\* statement of invokeClaude, which throws it on
Loaded(read, loaded) ==
  /\ file' = read
  /\ stderr' = stderr \o loaded.errLines
  /\ IF loaded.result.t = "return"
       THEN /\ imageBase64' = loaded.result.v
            /\ pc' = "loaded"
            /\ UNCHANGED outcome
       ELSE /\ outcome' = loaded.result
            /\ pc' = "settled"
            /\ UNCHANGED imageBase64

\* fs.readFile settles: the rest of loadImageAsBase64
LoadImage ==
  /\ pc = "reading"
  /\ \E read \in ReadResults : Loaded(read, LoadImageAsBase64(read))
  /\ UNCHANGED <<isMain, prompt, readCount, sendCount, command, reply,
                 stdout, exitCode>>

\* invokeClaude builds the payload and the command and calls client.send
Send ==
  /\ pc = "loaded"
  /\ command' = InvokeModelCommand(Payload(imageBase64, Str(prompt)))
  /\ sendCount' = sendCount + 1
  /\ pc' = "sending"
  /\ UNCHANGED <<isMain, prompt, readCount, file, imageBase64, reply,
                 outcome, stdout, stderr, exitCode>>

\* a variant of Settled: a send that failed is made again
SettledOrRetried(settled, tried) ==
  /\ reply' = settled
  /\ outcome' = tried.result
  /\ stderr' = stderr \o tried.errLines
  /\ pc' = IF tried.result.t = "throw" THEN "loaded" ELSE "settled"

\* invokeClaude has returned or thrown
Settled(settled, tried) ==
  /\ reply' = settled
  /\ outcome' = tried.result
  /\ stderr' = stderr \o tried.errLines
  /\ pc' = "settled"

\* the try statement on every settlement of client.send
TrySendOf == [settled \in Settlements |-> TrySend(settled)]

\* client.send settles: the rest of the try statement
Settle ==
  /\ pc = "sending"
  /\ \E settled \in Settlements : Settled(settled, TrySendOf[settled])
  /\ UNCHANGED <<isMain, prompt, readCount, file, imageBase64, sendCount,
                 command, stdout, exitCode>>

\* the file is run directly: the lines after the call of invokeClaude, or
\* the end of the process on the error the top-level await throws
MainExit ==
  /\ pc = "settled" /\ isMain
  /\ IF outcome.t = "return"
       THEN /\ stdout' = stdout \o <<<<Str(CompletionLabel)>>,
                                     <<outcome.v>>, <<Str(<<10>>)>>>>
            /\ exitCode' = 0
            /\ UNCHANGED stderr
       ELSE /\ stderr' = Append(stderr, <<outcome.e>>)
            /\ exitCode' = 1
            /\ UNCHANGED stdout
  /\ pc' = "exit"
  /\ UNCHANGED <<isMain, prompt, readCount, file, imageBase64, sendCount,
                 command, reply, outcome>>

Next ==
  \/ MainEntry
  \/ CallerEntry
  \/ InvokeClaude
  \/ LoadImage
  \/ Send
  \/ Settle
  \/ MainExit

Spec == Init /\ [][Next]_vars

(***************************************************************************)
(* Properties.                                                             *)
(***************************************************************************)
\* invokeClaude has returned or thrown
Done == pc \in {"settled", "exit"}

\* sub occurs in text
Contains(text, sub) ==
  \E i \in 1..(Len(text) - Len(sub) + 1) :
    SubSeq(text, i, i + Len(sub) - 1) = sub

\* the lines of standard error that are one string naming the model id
WarningLines ==
  {i \in 1..Len(stderr) :
     /\ Len(stderr[i]) = 1
     /\ stderr[i][1].t = "str"
     /\ Contains(stderr[i][1].s, ModelId)}

\* what the file run directly has written before it calls invokeClaude
BannerLines ==
  IF isMain /\ pc # "start"
    THEN <<<<Str(BannerLine)>>, <<Str(PromptLabel \o MainPrompt)>>>>
  ELSE <<>>

\* the members of an object that have the name
FieldIndexes(object, name) ==
  {i \in 1..Len(object.m) : object.m[i][1] = name}

HasField(value, name) ==
  value.t = "obj" /\ Cardinality(FieldIndexes(value, name)) = 1

Field(object, name) ==
  object.m[CHOOSE i \in FieldIndexes(object, name) : TRUE][2]

\* the value has a content list with a first element that is an object
HasFirstElement(v) ==
  /\ HasField(v, K_content)
  /\ Field(v, K_content).t = "arr"
  /\ Len(Field(v, K_content).a) >= 1
  /\ Field(v, K_content).a[1].t = "obj"

FirstElement(v) == Field(v, K_content).a[1]

\* client.send has resolved with the JSON text of a value
RepliedJson == reply.t = "resolve" /\ reply.json.ok

\* client.send has rejected with the access-denied error
RepliedDenied == reply.t = "reject" /\ IsAccessDenied(reply.e)

\* C1: when the image loads and the send fails with access-denied, the error
\* is caught and not thrown again: invokeClaude returns no value, and
\* exactly one warning naming the model id is written to standard error.
C1_AccessDeniedCaught ==
  (Done /\ RepliedDenied) =>
    /\ file.t = "bytes"
    /\ outcome = Return(Undefined)
    /\ Cardinality(WarningLines) = 1

C1_Witness ==
  /\ pc = "settled" /\ RepliedDenied
  /\ outcome = Return(Undefined)
  /\ Len(stderr) = 1

\* the value is null, or has no content, or a content list with no first
\* element or with null for it
LacksFirstElement(v) ==
  \/ v.t = "null"
  \/ v.t = "obj" /\ FieldIndexes(v, K_content) = {}
  \/ /\ HasField(v, K_content)
     /\ Field(v, K_content).t = "arr"
     /\ \/ Len(Field(v, K_content).a) = 0
        \/ Field(v, K_content).a[1].t = "null"

\* C2: a failure other than access-denied while sending, a response body
\* that is no JSON text, or a response with no first content element to
\* read, leaves invokeClaude by a throw: no value is returned and no
\* permission warning is written.
C2_OtherFailuresPropagate ==
  /\ (Done /\ reply.t = "reject" /\ ~IsAccessDenied(reply.e)) =>
       outcome = Throw(reply.e) /\ WarningLines = {}
  /\ (Done /\ reply.t = "resolve" /\ ~reply.json.ok) =>
       /\ outcome.t = "throw"
       /\ outcome.e.class = "SyntaxError"
       /\ WarningLines = {}
  /\ (Done /\ RepliedJson /\ LacksFirstElement(reply.json.v)) =>
       /\ outcome.t = "throw"
       /\ outcome.e.class = "TypeError"
       /\ WarningLines = {}

C2_Witness ==
  /\ pc = "settled"
  /\ reply.t = "resolve" /\ ~reply.json.ok /\ Len(reply.body) > 0
  /\ outcome.t = "throw"

\* C3: when the response is the JSON text of a value whose content list has
\* a first element with a text field t, invokeClaude returns exactly t,
\* whatever elements follow, and writes no warning.
C3_ReturnsFirstText ==
  (Done /\ RepliedJson /\ HasFirstElement(reply.json.v)
     /\ HasField(FirstElement(reply.json.v), K_text)) =>
    /\ outcome = Return(Field(FirstElement(reply.json.v), K_text))
    /\ WarningLines = {}

C3_Witness ==
  /\ pc = "settled" /\ RepliedJson /\ HasFirstElement(reply.json.v)
  /\ Len(Field(reply.json.v, K_content).a) = 2
  /\ HasField(FirstElement(reply.json.v), K_text)
  /\ outcome = Return(Str(Tricky))

\* C4: when the image cannot be read the loader throws, invokeClaude throws
\* that same error, the read is made once, nothing stands in for the image
\* and no request is sent.
C4_ReadErrorPropagates ==
  file.t = "error" =>
    /\ Done
    /\ LoadImageAsBase64(file).result = Throw(file.e)
    /\ outcome = Throw(file.e)
    /\ readCount = 1
    /\ imageBase64 = Undefined
    /\ sendCount = 0 /\ command = NoCommand /\ reply = NoSettlement

C4_Witness ==
  /\ pc = "settled" /\ file.t = "error" /\ file.e.code = "ENOENT"
  /\ outcome = Throw(file.e) /\ sendCount = 0

\* C5: when the response is a JSON value whose first content element has no
\* text field, invokeClaude ends in a malformed-response outcome: it does
\* not return normally.
C5_MissingTextIsMalformed ==
  (Done /\ RepliedJson /\ HasFirstElement(reply.json.v)
     /\ ~HasField(FirstElement(reply.json.v), K_text)) =>
    outcome.t = "throw"

\* the body is the JSON text of a request with one user message of two
\* content parts: the image block with the data, then the text block
RequestHasShape(parsed, data, text) ==
  /\ parsed.ok
  /\ HasField(parsed.v, K_messages)
  /\ Field(parsed.v, K_messages).t = "arr"
  /\ Len(Field(parsed.v, K_messages).a) = 1
  /\ LET message == Field(parsed.v, K_messages).a[1] IN
     /\ HasField(message, K_role) /\ Field(message, K_role) = Str(K_user)
     /\ HasField(message, K_content)
     /\ Field(message, K_content).t = "arr"
     /\ Len(Field(message, K_content).a) = 2
     /\ LET first == Field(message, K_content).a[1]
            second == Field(message, K_content).a[2]
        IN /\ HasField(first, K_type)
           /\ Field(first, K_type) = Str(K_image)
           /\ HasField(first, K_source)
           /\ HasField(Field(first, K_source), K_data)
           /\ Field(Field(first, K_source), K_data) = data
           /\ HasField(second, K_type)
           /\ Field(second, K_type) = Str(K_text)
           /\ HasField(second, K_text)
           /\ Field(second, K_text) = Str(text)

\* C6: the request body invokeClaude sends holds exactly one message, of
\* role user, with exactly two content parts: first the image block with
\* the base64 string of the loader, then the text block with the prompt.
C6_RequestShape ==
  pc = "sending" =>
    /\ imageBase64 = Str(Base64Encode(file.b))
    /\ RequestHasShape(JsonParse(command.body), imageBase64, prompt)

C6_Witness ==
  /\ pc = "sending"
  /\ Len(file.b) = 2
  /\ prompt = <<Code("\""), Code("\\")>>

\* the 6-bit group of every ASCII character that is a base64 character
B64ValueOf ==
  [c \in {Base64Alphabet[k] : k \in 1..64} |->
     (CHOOSE k \in 1..64 : Base64Alphabet[k] = c) - 1]

\* the 6-bit group of a base64 character, -1 of any other character
B64Value(c) == IF c \in DOMAIN B64ValueOf THEN B64ValueOf[c] ELSE -1

\* the bytes of one group of four base64 characters
B64DecodeGroup(g) ==
  IF g[3] = B64Pad
    THEN <<B64Value(g[1]) * 4 + B64Value(g[2]) \div 16>>
  ELSE IF g[4] = B64Pad
    THEN <<B64Value(g[1]) * 4 + B64Value(g[2]) \div 16,
           (B64Value(g[2]) % 16) * 16 + B64Value(g[3]) \div 4>>
  ELSE <<B64Value(g[1]) * 4 + B64Value(g[2]) \div 16,
         (B64Value(g[2]) % 16) * 16 + B64Value(g[3]) \div 4,
         (B64Value(g[3]) % 4) * 64 + B64Value(g[4])>>

\* the bytes a padded base64 text stands for; <<-1>> of a text that is none
Base64Decode(text) ==
  IF Len(text) % 4 # 0 THEN <<-1>>
  ELSE IF \E i \in 1..Len(text) :
            /\ B64Value(text[i]) < 0
            /\ ~(text[i] = B64Pad /\ i > Len(text) - 2)
    THEN <<-1>>
  ELSE IF Len(text) >= 4 /\ text[Len(text) - 1] = B64Pad
            /\ text[Len(text)] # B64Pad
    THEN <<-1>>
  ELSE Flatten([k \in 1..(Len(text) \div 4) |->
                  B64DecodeGroup(SubSeq(text, 4 * k - 3, 4 * k))])

\* C7: the string loadImageAsBase64 returns for a file, base64-decoded, is
\* the bytes of the file.
C7_Base64RoundTrip ==
  file.t = "bytes" =>
    /\ imageBase64.t = "str"
    /\ Base64Decode(imageBase64.s) = file.b

C7_Witness ==
  /\ file.t = "bytes" /\ file.b = <<255, 77>>
  /\ imageBase64.t = "str" /\ Len(imageBase64.s) = 4

\* loadImageAsBase64 has ended and nothing has run since but the throw of
\* its error through invokeClaude
JustLoaded == file.t # "none" /\ reply.t = "none" /\ pc \in {"loaded", "settled"}

\* C8 as stated: whether the read succeeds or fails, the loader writes
\* nothing to standard output or standard error.
C8_LoaderWritesNothing ==
  JustLoaded => stdout = BannerLines /\ stderr = <<>>

\* C8: the loader writes nothing to standard output; when the read succeeds
\* it writes nothing to standard error, and when the read fails it writes
\* one line to standard error, the label and the error, and throws.
C8_LoaderWritesOnFailureOnly ==
  JustLoaded =>
    /\ stdout = BannerLines
    /\ file.t = "bytes" => stderr = <<>>
    /\ file.t = "error" => stderr = <<<<Str(LoadErrorLabel), file.e>>>>

C8_Witness ==
  /\ JustLoaded /\ file.t = "error"
  /\ Len(stderr) = 1 /\ stderr[1][1] = Str(LoadErrorLabel)

\* C9: run directly and answered access-denied, the process ends without
\* failure, writes nothing to standard output after the call, and reports
\* only the warning on standard error.
C9_DeniedProducesNoOutput ==
  (isMain /\ pc = "exit" /\ RepliedDenied) =>
    /\ exitCode = 0
    /\ stdout = BannerLines
    /\ Len(stderr) = 1 /\ WarningLines = {1}

\* C10: one invocation reads once and sends at most once: the send is made
\* only after the image has loaded, once in that case and not at all when
\* the load failed, and it is not made again after any failure.
C10_OneSendAfterLoad ==
  /\ readCount <= 1 /\ sendCount <= 1
  /\ pc \in {"start", "call", "reading", "loaded"} =>
       sendCount = 0 /\ reply.t = "none"
  /\ pc \in {"start", "call", "reading"} => file.t = "none"
  /\ sendCount = 1 => file.t = "bytes"
  /\ file.t = "error" => sendCount = 0
  /\ (file.t = "bytes" /\ pc \in {"sending", "settled", "exit"}) =>
       sendCount = 1
  /\ reply.t # "none" => Done /\ sendCount = 1

C10_Witness ==
  /\ pc = "settled" /\ sendCount = 1 /\ readCount = 1
  /\ reply.t = "reject" /\ outcome.t = "throw"

====
